---- MODULE Spec2Model ----
(***************************************************************************)
(* JobSphere GraphQL backend: the users table, the JWT bearer context,     *)
(* the authorization guards and the user resolvers (register, login,       *)
(* updateUser, deleteUser, users, user, me).                               *)
(*                                                                         *)
(* Strings on which the code computes (ids: Number.parseInt, toString,     *)
(* ===; the Authorization header: startsWith, substring) are sequences of  *)
(* one-character strings.  Strings that are only compared or stored        *)
(* (emails, names, messages, codes) are TLA+ strings.  An optional value   *)
(* (context.user, a nullable column) is the empty set or a singleton.      *)
(***************************************************************************)
EXTENDS Integers, Sequences, FiniteSets, TLC

VARIABLES
    users,      \* the users table: id -> row
    nextId,     \* next value of the identity sequence of users.id
    nextJti,    \* next fresh refresh-token identifier
    now,        \* the clock
    issued,     \* the tokens login has returned to clients
    pc,         \* per request slot: the await the resolver is suspended at
    loc,        \* per request slot: the resolver's locals
    response,   \* the response sent by the last step, if that step sent one
    retired,    \* history: (id, jti) pairs that have left a stored token set
    presented,  \* history: refreshToken / logout requests and their outcome
    call,       \* the last call of a pure function: its inputs and output
    watch,      \* the fields whose responses are observed (fixed by Init)
    loginCap    \* the number of tokens pairs login may sign (fixed by Init)

vars == <<users, nextId, nextJti, now, issued, pc, loc, response,
          retired, presented, call, watch, loginCap>>

----------------------------------------------------------------------------
(* Bounds *)

MaxId == 2
MaxJti == 1
MaxJtiRace == 3
MaxTime == 1

(* Configuration of the token service: lifetimes in clock ticks. *)
AccessLifetime == 1
RefreshLifetime == 2

Procs == {"r1", "r2"}

Emails == {"a@x", "b@x"}
Passwords == {"p", "q"}
Salts == {"s1"}
GqlRoles == {"CUSTOMER", "CONTRACTOR", "ADMIN"}
(* The inputs the server is driven with *)
RegPasswords == {"p"}
RegRoles == {"CUSTOMER", "ADMIN"}
Roles == {"customer", "contractor", "admin"}

None == {}
Some(x) == {x}
TheOne(s) == CHOOSE x \in s : TRUE

----------------------------------------------------------------------------
(* Strings as character sequences *)

Digits == <<"0", "1", "2", "3", "4", "5", "6", "7", "8", "9">>
IsDigit(c) == \E i \in 1..10 : Digits[i] = c
DigitVal(c) == (CHOOSE i \in 1..10 : Digits[i] = c) - 1

(* StrWhiteSpaceChar of ECMAScript: white space and line terminators.    *)
(* The characters TLA+ strings cannot spell are written by their names.  *)
WhiteSpaceChars ==
    {" ", "\t", "\n", "\r", "\f", "<VT>", "<NBSP>", "<BOM>", "<LS>", "<PS>",
     "<Zs>"}
IsSpace(c) == c \in WhiteSpaceChars

(* NaN: the number that is no integer.  A number is the empty set (NaN)  *)
(* or the singleton of its integer value.                                *)
NaN == {}

RECURSIVE NatToString(_)
NatToString(n) ==
    IF n < 10 THEN <<Digits[n + 1]>>
    ELSE NatToString(n \div 10) \o <<Digits[(n % 10) + 1]>>

(* Number.prototype.toString of an integer *)
NumberToString(n) ==
    IF n < 0 THEN <<"-">> \o NatToString(0 - n) ELSE NatToString(n)

RECURSIVE SkipSpaces(_)
SkipSpaces(s) ==
    IF s # <<>> /\ IsSpace(Head(s)) THEN SkipSpaces(Tail(s)) ELSE s

RECURSIVE DigitPrefixVal(_, _)
DigitPrefixVal(s, acc) ==
    IF s # <<>> /\ IsDigit(Head(s))
    THEN DigitPrefixVal(Tail(s), acc * 10 + DigitVal(Head(s)))
    ELSE acc

(* Number.parseInt(s, 10): leading white space is skipped, one "+" or    *)
(* "-" is taken as the sign, the longest prefix of decimal digits after  *)
(* it is converted and anything behind is ignored; no digit there gives  *)
(* NaN.  -0 is the integer 0.                                            *)
ParseInt(s) ==
    LET t == SkipSpaces(s)
        signed == t # <<>> /\ Head(t) \in {"+", "-"}
        d == IF signed THEN Tail(t) ELSE t
    IN IF d # <<>> /\ IsDigit(Head(d))
       THEN IF signed /\ Head(t) = "-"
            THEN {0 - DigitPrefixVal(d, 0)}
            ELSE {DigitPrefixVal(d, 0)}
       ELSE NaN

(* Ids a client may send as the GraphQL ID argument *)
AllArgIds == { <<"1">>, <<"2">>, <<"3">>, <<"0", "1">>, <<"1", "x">>,
               <<" ", "2">>, <<"x">>, <<>>, <<"1", "0">>,
               <<"+", "1">>, <<"-", "1">>, <<"\t", "1">>, <<"\n", "2">>,
               <<"-", "0">>, <<"+">>, <<"+", " ", "1">> }
(* those the resolvers are driven with: the two canonical ids, an id     *)
(* with a sign and a leading zero, an id with leading white space and a  *)
(* trailing letter, and an id without digits                             *)
ArgIds == { <<"1">>, <<"2">>, <<"+", "0", "1">>, <<"\t", "2", "x">>,
            <<"x">> }

(* String.prototype.toLowerCase on the role names *)
ToLowerCase(s) ==
    CASE s = "CUSTOMER" -> "customer"
      [] s = "CONTRACTOR" -> "contractor"
      [] s = "ADMIN" -> "admin"
      [] OTHER -> s

----------------------------------------------------------------------------
(* lib/jwt: token service and credential service *)

AccessSecret == "ACCESS_SECRET"
RefreshSecret == "REFRESH_SECRET"
ForgedSecret == "attacker"

Payload(userId, email, role) ==
    [userId |-> userId, email |-> email, role |-> role]

(* A signed token: its claims and the secret its signature was made with. *)
Token(secret, payload, jti, iat, exp) ==
    [secret |-> secret, userId |-> payload.userId, email |-> payload.email,
     role |-> payload.role, jti |-> jti, iat |-> iat, exp |-> exp]

signAccessToken(payload, t) ==
    Token(AccessSecret, payload, 0, t, t + AccessLifetime)

signRefreshToken(payload, jti, t) ==
    [token |-> Token(RefreshSecret, payload, jti, t, t + RefreshLifetime),
     jti |-> jti]

Throw(code, message) ==
    [kind |-> "throw", code |-> code, message |-> message, data |-> None]
Return(data) ==
    [kind |-> "return", code |-> "", message |-> "", data |-> Some(data)]
NoResult ==
    [kind |-> "none", code |-> "", message |-> "", data |-> None]

(* verifyAccessToken(token): the token text is an optional signed token   *)
(* (None: text that is not a token at all); throws unless the signature   *)
(* was made with the access secret and exp > now.                         *)
verifyAccessToken(tokenText, t) ==
    IF tokenText = None THEN Throw("InvalidToken", "jwt malformed")
    ELSE LET tok == TheOne(tokenText)
         IN IF tok.secret # AccessSecret
            THEN Throw("InvalidToken", "invalid signature")
            ELSE IF ~(tok.exp > t)
            THEN Throw("InvalidToken", "jwt expired")
            ELSE Return(tok)

hashPassword(plain, salt) == [plain |-> plain, salt |-> salt]
comparePassword(plain, digest) == digest.plain = plain

----------------------------------------------------------------------------
(* graphql/context.ts *)

BearerPrefix == <<"B", "e", "a", "r", "e", "r", " ">>

StartsWith(s, prefix) ==
    Len(s) >= Len(prefix) /\ SubSeq(s, 1, Len(prefix)) = prefix

Substring(s, from) == SubSeq(s, from + 1, Len(s))

(* An Authorization header: the characters in front of the token blob and *)
(* the blob itself (None: nothing follows the characters).                *)
Header(text, blob) == [text |-> text, blob |-> blob]

(* The text handed to verifyAccessToken after authHeader.substring(7):   *)
(* it is the blob exactly when nothing but "Bearer " stood in front.     *)
TokenText(h) ==
    IF Substring(h.text, 7) = <<>> THEN h.blob ELSE None

NoContext == [user |-> None]

(* A request, as createContext sees it: the kind of object its headers   *)
(* field is, and the Authorization header the client sent (None: no such *)
(* header).  An Express request holds the headers as a plain object with *)
(* one property per header; the Request of the Fetch API, which Yoga     *)
(* hands to the context factory, holds them in a Headers object, read    *)
(* with get(name).                                                       *)
ExpressRequest(h) == [headers |-> "object", authorization |-> h]
FetchRequest(h) == [headers |-> "Headers", authorization |-> h]

(* line 13: req.headers.authorization, a property access: undefined on a *)
(* Headers object, which has no property named after a header            *)
HeadersAuthorization(req) ==
    IF req.headers = "object" THEN req.authorization ELSE None

createContextThrows(req) ==
    LET authHeader == HeadersAuthorization(req)
    IN IF authHeader # None /\ StartsWith(TheOne(authHeader).text, BearerPrefix)
       THEN LET decoded == verifyAccessToken(TokenText(TheOne(authHeader)), now)
            IN IF decoded.kind = "return"
               THEN [user |-> Some(Payload(TheOne(decoded.data).userId,
                                           TheOne(decoded.data).email,
                                           TheOne(decoded.data).role))]
               ELSE decoded
       ELSE NoContext

createContextWrong(req) ==
    LET authHeader == HeadersAuthorization(req)
    IN IF authHeader # None /\ StartsWith(TheOne(authHeader).text, BearerPrefix)
       THEN LET decoded == verifyAccessToken(TokenText(TheOne(authHeader)), now)
            IN IF decoded.kind = "return"
                  /\ \E id \in DOMAIN users :
                         NumberToString(id) = TheOne(decoded.data).userId
                         /\ ~users[id].isSuspend
               THEN [user |-> Some(Payload(TheOne(decoded.data).userId,
                                           TheOne(decoded.data).email,
                                           TheOne(decoded.data).role))]
               ELSE NoContext
       ELSE NoContext

(* lines 12-33 *)
createContext(req) ==
    LET authHeader == HeadersAuthorization(req)
    IN IF authHeader # None /\ StartsWith(TheOne(authHeader).text, BearerPrefix)
       THEN LET decoded == verifyAccessToken(TokenText(TheOne(authHeader)), now)
            IN IF decoded.kind = "return"
               THEN [user |-> Some(Payload(TheOne(decoded.data).userId,
                                           TheOne(decoded.data).email,
                                           TheOne(decoded.data).role))]
               ELSE NoContext
       ELSE NoContext

----------------------------------------------------------------------------
(* graphql/guards.ts *)

requireAuthElevates(context) ==
    IF context.user = None
    THEN Throw("UNAUTHENTICATED", "Unauthorized - Authentication required")
    ELSE Return(Payload(TheOne(context.user).userId,
                        TheOne(context.user).email, "admin"))

requireAuth(context) ==
    IF context.user = None
    THEN Throw("UNAUTHENTICATED", "Unauthorized - Authentication required")
    ELSE Return(TheOne(context.user))

requireRoleAdminPasses(context, role) ==
    LET auth == requireAuth(context)
    IN IF auth.kind = "throw" THEN auth
       ELSE LET user == TheOne(auth.data)
            IN IF user.role # role /\ user.role # "admin"
               THEN Throw("FORBIDDEN",
                          <<"Forbidden - ", role, " access required">>)
               ELSE Return(user)

(* lines 19-30; the message is the template literal                     *)
(* `Forbidden - ${role} access required`, kept as its three parts       *)
requireRole(context, role) ==
    LET auth == requireAuth(context)
    IN IF auth.kind = "throw" THEN auth
       ELSE LET user == TheOne(auth.data)
            IN IF user.role # role
               THEN Throw("FORBIDDEN",
                          <<"Forbidden - ", role, " access required">>)
               ELSE Return(user)

(* Array.prototype.includes *)
Includes(arr, x) == \E i \in 1..Len(arr) : arr[i] = x

requireAnyRoleEmptyPasses(context, roles) ==
    LET auth == requireAuth(context)
    IN IF auth.kind = "throw" THEN auth
       ELSE LET user == TheOne(auth.data)
            IN IF roles # <<>> /\ ~Includes(roles, user.role)
               THEN Throw("FORBIDDEN", "Forbidden - Insufficient permissions")
               ELSE Return(user)

(* lines 35-46 *)
requireAnyRole(context, roles) ==
    LET auth == requireAuth(context)
    IN IF auth.kind = "throw" THEN auth
       ELSE LET user == TheOne(auth.data)
            IN IF ~Includes(roles, user.role)
               THEN Throw("FORBIDDEN", "Forbidden - Insufficient permissions")
               ELSE Return(user)

requireOwnershipNoCheck(context, resourceUserId) ==
    requireAuth(context)

requireOwnershipWrong(context, resourceUserId) ==
    LET auth == requireAuth(context)
    IN IF auth.kind = "throw" THEN auth
       ELSE LET user == TheOne(auth.data)
            IN IF user.userId # resourceUserId /\ user.role = "admin"
               THEN Throw("FORBIDDEN",
                          "Forbidden - You can only access your own resources")
               ELSE Return(user)

requireOwnership(context, resourceUserId) ==
    LET auth == requireAuth(context)
    IN IF auth.kind = "throw" THEN auth
       ELSE LET user == TheOne(auth.data)
            IN IF user.userId # resourceUserId /\ user.role # "admin"
               THEN Throw("FORBIDDEN",
                          "Forbidden - You can only access your own resources")
               ELSE Return(user)

----------------------------------------------------------------------------
(* db/schema.ts: the users table *)

Names == {"n"}
Phones == {None}

(* insert(usersTable).values({email, password, name, role, phone}): the   *)
(* remaining columns take their defaults.  The columns no resolver reads  *)
(* or writes after the insert (createdAt, passwordResetOTP, otpExpiry)    *)
(* are left out.                                                          *)
NewRow(id, email, password, name, role, phone, t) ==
    [id |-> id, email |-> email, password |-> password, name |-> name,
     role |-> role, phone |-> phone, isSuspend |-> FALSE,
     refreshTokens |-> <<>>, updatedAt |-> t]

(* select().from(usersTable).where(eq(usersTable.email, email)) *)
SelectByEmail(tbl, email) == {id \in DOMAIN tbl : tbl[id].email = email}

(* select().from(usersTable).where(eq(usersTable.id, n)); NaN matches no row *)
SelectById(tbl, n) == {id \in DOMAIN tbl : id \in n}

WithoutPasswordKeeps(row) == row

(* const { password, ...user } = row *)
WithoutPassword(row) ==
    [id |-> row.id, email |-> row.email, name |-> row.name, role |-> row.role,
     phone |-> row.phone, isSuspend |-> row.isSuspend,
     refreshTokens |-> row.refreshTokens, updatedAt |-> row.updatedAt]

Restrict(f, S) == [x \in S |-> f[x]]

SeqToSet(s) == {s[i] : i \in 1..Len(s)}

IsActive(tbl, id, jti) ==
    id \in DOMAIN tbl /\ jti \in SeqToSet(tbl[id].refreshTokens)

(* the same for the id a userId string parses to *)
IsActiveFor(tbl, n, jti) == \E id \in n : IsActive(tbl, id, jti)

(* History: the (account, jti) pairs that were members of a stored        *)
(* refresh-token set and are members no longer after the step.            *)
Retire(tbl, tbl2) ==
    UNION {{<<id, j>> : j \in {k \in SeqToSet(tbl[id].refreshTokens) :
                                  ~IsActive(tbl2, id, k)}} : id \in DOMAIN tbl}

----------------------------------------------------------------------------
(* graphql/typeDefs.ts: the fields of type Mutation and type Query *)

MutationFields == {"register", "login", "updateUser", "deleteUser"}
QueryFields == {"users", "user", "me"}

----------------------------------------------------------------------------
(* Requests *)

(* Tokens a client can present: those handed out by login, and one the    *)
(* client signed itself.                                                  *)
ForgedToken ==
    Token(ForgedSecret, Payload(<<"1">>, "a@x", "admin"), 0, 0, MaxTime + 9)

HeaderTexts == { BearerPrefix,
                 <<"b", "e", "a", "r", "e", "r", " ">>,
                 <<"B", "a", "s", "i", "c", " ">>,
                 <<>>,
                 BearerPrefix \o <<" ">> }

Headers(tokens) ==
    {None} \cup {Some(Header(t, b)) :
                    t \in HeaderTexts,
                    b \in {None} \cup {Some(k) : k \in tokens \cup {ForgedToken}}}

(* The Authorization header "Bearer t" of a client presenting token t *)
BearerHeader(t) == Some(Header(BearerPrefix, Some(t)))

(* The context createContext gives for an Express request presenting t *)
BearerContext(t) == createContext(ExpressRequest(BearerHeader(t)))

(* The context the Yoga server gives a request presenting t *)
ServerContext(t) == createContext(FetchRequest(BearerHeader(t)))

(* graphql/server.ts lines 16-19: the context of a request to the Yoga   *)
(* server is createContext(request), request being the Fetch Request;    *)
(* these are the contexts the requests a client can send arrive with.    *)
Contexts == {createContext(FetchRequest(h)) : h \in Headers(issued)}

IdentityOf(tok) == Payload(tok.userId, tok.email, tok.role)

(* context.ts lines 4-10: the contexts a resolver may be called with,    *)
(* (_parent, args, context): without user, or with the user             *)
(* createContext gives for an Express request carrying a token login has *)
(* handed out, built now or when the token had not yet expired.          *)
ResolverContexts ==
    {createContext(ExpressRequest(h)) : h \in Headers(issued)}
        \cup {[user |-> Some(IdentityOf(t))] :
                 t \in {k \in issued : k.secret = AccessSecret}}

NoArgs == [none |-> TRUE]
NoLoc == [none |-> TRUE]
NoResponse == [op |-> "none"]

Idle(p) == pc[p] = "idle"

(* The resolver returns or throws: the response goes out.  changed tells  *)
(* whether the step that sent it wrote to the users table.  register and  *)
(* login never read their context argument (_context): their responses    *)
(* are recorded with the empty context.                                   *)
Respond(p, field, c, a, r) ==
    /\ pc' = [pc EXCEPT ![p] = "idle"]
    /\ loc' = [loc EXCEPT ![p] = NoLoc]
    /\ response' = IF field \in watch
                   THEN [op |-> field, ctx |-> c, args |-> a, result |-> r,
                         changed |-> users' # users]
                   ELSE NoResponse

(* The resolver suspends at an await.  Of its locals, those it reads     *)
(* again after the await are kept; those that only describe the request  *)
(* (context, arguments) are kept when the field's responses are observed.*)
Await(p, label, l) ==
    /\ pc' = [pc EXCEPT ![p] = label]
    /\ loc' = [loc EXCEPT ![p] = l]
    /\ response' = NoResponse

----------------------------------------------------------------------------
(* resolvers/userMutations.ts: register *)

RegisterInputs ==
    [email : Emails, password : RegPasswords, name : Names, role : RegRoles,
     phone : Phones]

RegisterSelectNoCheck(p, input) ==
    /\ Idle(p)
    /\ nextId + Cardinality({q \in Procs : pc[q] = "reg_insert"}) <= MaxId
    /\ users' = users
    /\ Await(p, "reg_insert", [input |-> input])
    /\ UNCHANGED <<nextId, nextJti, now, issued, retired, presented, call, watch, loginCap>>

(* lines 38-50: the existence check *)
RegisterSelect(p, input) ==
    /\ Idle(p)
    /\ nextId + Cardinality({q \in Procs : pc[q] = "reg_insert"}) <= MaxId
    /\ users' = users
    /\ IF SelectByEmail(users, input.email) # {}
       THEN Respond(p, "register", NoContext, input,
                    Throw("BAD_USER_INPUT",
                          "User with this email already exists"))
       ELSE Await(p, "reg_insert", [input |-> input])
    /\ UNCHANGED <<nextId, nextJti, now, issued, retired, presented, call, watch, loginCap>>

NextIdentityMaxPlusOne(tbl, seq) ==
    IF DOMAIN tbl = {} THEN 1
    ELSE (CHOOSE id \in DOMAIN tbl : \A o \in DOMAIN tbl : o <= id) + 1

(* db/schema.ts: id integer generatedAlwaysAsIdentity(): the id of a new *)
(* row is the next value of the column's sequence, whatever the table   *)
(* holds.                                                               *)
NextIdentity(tbl, seq) == seq

UniqueViolationOff(tbl, email) == FALSE

(* db/schema.ts: email varchar .notNull().unique(): the insert of a row  *)
(* whose email another row has is rejected.                              *)
UniqueViolation(tbl, email) == SelectByEmail(tbl, email) # {}

RegisterStoreNoHash(input, id, salt, t) ==
    NewRow(id, input.email, hashPassword("", salt), input.name,
           ToLowerCase(input.role), input.phone, t)

RegisterStoreKeepsCase(input, id, salt, t) ==
    NewRow(id, input.email, hashPassword(input.password, salt), input.name,
           input.role, input.phone, t)

RegisterStoreAdmin(input, id, salt, t) ==
    NewRow(id, input.email, hashPassword(input.password, salt), input.name,
           "admin", input.phone, t)

(* lines 52-62: the values of the row register inserts *)
RegisterStore(input, id, salt, t) ==
    NewRow(id, input.email, hashPassword(input.password, salt), input.name,
           ToLowerCase(input.role), input.phone, t)

(* lines 52-67: hash the password and insert the row.  The identity       *)
(* column draws the next sequence value whether or not the unique index   *)
(* on email then rejects the row.                                         *)
RegisterInsert(p) ==
    /\ pc[p] = "reg_insert"
    /\ \E salt \in Salts :
         LET input == loc[p].input
             newId == NextIdentity(users, nextId)
             row == RegisterStore(input, newId, salt, now)
         IN IF UniqueViolation(users, input.email)
            THEN /\ users' = users
                 /\ Respond(p, "register", NoContext, input,
                            Throw("INTERNAL_SERVER_ERROR",
                                  "duplicate key value violates unique constraint"))
            ELSE /\ users' = [id \in DOMAIN users \cup {newId} |->
                                 IF id = newId THEN row ELSE users[id]]
                 /\ Respond(p, "register", NoContext, input,
                            Return([success |-> TRUE,
                                    message |-> "User registered successfully"]))
    /\ nextId' = nextId + 1
    /\ UNCHANGED <<nextJti, now, issued, retired, presented, call, watch, loginCap>>

----------------------------------------------------------------------------
(* resolvers/userMutations.ts: login *)

LoginInputs == [email : Emails, password : Passwords]

(* users[0] of a select *)
FirstRow(tbl, ids) == tbl[CHOOSE id \in ids : \A o \in ids : id <= o]

(* LoginCheck with the unknown email told apart, and with the          *)
(* suspension flag not looked at                                       *)
LoginCheckTellsUnknown(tbl, input) ==
    LET found == SelectByEmail(tbl, input.email)
    IN IF found = {}
       THEN Throw("NOT_FOUND", "User not found")
       ELSE LET user == FirstRow(tbl, found)
            IN IF user.isSuspend
               THEN Throw("FORBIDDEN", "Account is suspended")
               ELSE Return(user)

LoginCheckNoSuspension(tbl, input) ==
    LET found == SelectByEmail(tbl, input.email)
    IN IF found = {}
       THEN Throw("BAD_USER_INPUT", "Invalid email or password")
       ELSE Return(FirstRow(tbl, found))

(* lines 78-97: find the account by email, refuse a suspended account,  *)
(* in this order; the row found is returned.                            *)
LoginCheck(tbl, input) ==
    LET found == SelectByEmail(tbl, input.email)
    IN IF found = {}
       THEN Throw("BAD_USER_INPUT", "Invalid email or password")
       ELSE LET user == FirstRow(tbl, found)
            IN IF user.isSuspend
               THEN Throw("FORBIDDEN", "Account is suspended")
               ELSE Return(user)

(* lines 99-105: verify the password against the row found *)
LoginVerify(user, input) ==
    IF ~comparePassword(input.password, user.password)
    THEN Throw("BAD_USER_INPUT", "Invalid email or password")
    ELSE Return(user)

LoginPayloadEnumRole(user) ==
    Payload(NumberToString(user.id), user.email,
            CASE user.role = "customer" -> "CUSTOMER"
              [] user.role = "contractor" -> "CONTRACTOR"
              [] user.role = "admin" -> "ADMIN"
              [] OTHER -> user.role)

(* lines 107-111: the payload of the two tokens *)
LoginPayload(user) ==
    Payload(NumberToString(user.id), user.email, user.role)

(* The logins that hold or will draw a jti not yet counted in nextJti *)
LoginsComparing == {q \in Procs : pc[q] = "login_compare"}

(* lines 76-100: the select by email runs; the resolver checks that an   *)
(* account was found and is not suspended and starts comparePassword.    *)
LoginSelect(p, input) ==
    /\ Idle(p)
    /\ nextJti + Cardinality(LoginsComparing) <= loginCap
    /\ users' = users
    /\ LET checked == LoginCheck(users, input)
       IN IF checked.kind = "throw"
          THEN Respond(p, "login", NoContext, input, checked)
          ELSE Await(p, "login_compare",
                     [input |-> input, user |-> TheOne(checked.data)])
    /\ UNCHANGED <<nextId, nextJti, now, issued, retired, presented, call,
                   watch, loginCap>>

(* lines 100-124: comparePassword has resolved.  On a mismatch the       *)
(* resolver throws; otherwise it signs the two tokens for the row it     *)
(* selected (the clock is read and the jti drawn now) and sends the      *)
(* update statement; the value updatedAt takes from its $onUpdate        *)
(* function (db/schema.ts line 34) is computed as the statement is built.*)
LoginSign(p) ==
    /\ pc[p] = "login_compare"
    /\ users' = users
    /\ LET input == loc[p].input
           verified == LoginVerify(loc[p].user, input)
       IN IF verified.kind = "throw"
          THEN /\ Respond(p, "login", NoContext, input, verified)
               /\ UNCHANGED nextJti
          ELSE LET user == TheOne(verified.data)
                   payload == LoginPayload(user)
                   signed == signRefreshToken(payload, nextJti, now)
               IN /\ Await(p, "login_update",
                           [input |-> input,
                            user |-> user,
                            accessToken |-> signAccessToken(payload, now),
                            refreshToken |-> signed.token,
                            jti |-> signed.jti,
                            sentAt |-> now])
                  /\ nextJti' = nextJti + 1
    /\ UNCHANGED <<nextId, now, issued, retired, presented, call, watch,
                   loginCap>>

(* lines 117-124: update(usersTable).set({refreshTokens: [...currentTokens, *)
(* jti]}).where(eq(usersTable.id, user.id)), updatedAt set to the value t   *)
(* the statement carries.  A row deleted in the meantime is not matched.    *)
LoginStore(tbl, user, jti, t) ==
    IF user.id \in DOMAIN tbl
    THEN [tbl EXCEPT ![user.id].refreshTokens = user.refreshTokens \o <<jti>>,
                     ![user.id].updatedAt = t]
    ELSE tbl

(* lines 119-133: the database executes the update; the resolver returns *)
LoginUpdate(p) ==
    /\ pc[p] = "login_update"
    /\ users' = LoginStore(users, loc[p].user, loc[p].jti, loc[p].sentAt)
    /\ retired' = IF "login" \in watch
                  THEN retired \cup Retire(users, users')
                  ELSE retired
    /\ issued' = issued \cup {loc[p].accessToken, loc[p].refreshToken}
    /\ Respond(p, "login", NoContext, loc[p].input,
               Return([accessToken |-> loc[p].accessToken,
                       refreshToken |-> loc[p].refreshToken,
                       user |-> WithoutPassword(loc[p].user)]))
    /\ UNCHANGED <<nextId, nextJti, now, presented, call, watch, loginCap>>

----------------------------------------------------------------------------
(* resolvers/userMutations.ts: updateUser, deleteUser *)

UpdateUserInputs ==
    { [name |-> Some("m"), phone |-> Some("9")],
      [name |-> None, phone |-> None] }

UpdateRowDropsSessions(tbl, n, input, t) ==
    [id \in DOMAIN tbl |->
        IF id \in n
        THEN [tbl[id] EXCEPT
                !.name = IF input.name = None THEN @ ELSE TheOne(input.name),
                !.phone = IF input.phone = None THEN @ ELSE input.phone,
                !.refreshTokens = <<>>,
                !.updatedAt = t]
        ELSE tbl[id]]

(* set({...args.input, updatedAt: t}).where(eq(usersTable.id, n)) *)
UpdateRow(tbl, n, input, t) ==
    [id \in DOMAIN tbl |->
        IF id \in n
        THEN [tbl[id] EXCEPT
                !.name = IF input.name = None THEN @ ELSE TheOne(input.name),
                !.phone = IF input.phone = None THEN @ ELSE input.phone,
                !.updatedAt = t]
        ELSE tbl[id]]

DeleteRowWrong(tbl, n) == Restrict(tbl, {})

(* delete(usersTable).where(eq(usersTable.id, n)) *)
DeleteRow(tbl, n) == Restrict(tbl, DOMAIN tbl \ n)

(* What an updateUser call keeps across its awaits *)
UpdateLocals(c, a, userId, t) ==
    IF "updateUser" \in watch
    THEN [ctx |-> c, args |-> a, userId |-> userId, input |-> a.input,
          sentAt |-> t]
    ELSE [userId |-> userId, input |-> a.input, sentAt |-> t]

UpdateUserUpdateNoGuard(p, c, id, input) ==
    /\ Idle(p)
    /\ users' = users
    /\ Await(p, "upd_update",
             UpdateLocals(c, [id |-> id, input |-> input], ParseInt(id), now))
    /\ UNCHANGED <<nextId, nextJti, now, issued, retired, presented, call,
                   watch, loginCap>>

(* lines 142-154: the call.  The id is parsed, the ownership guard runs, *)
(* the update statement is built, updatedAt: new Date() read from the    *)
(* clock now, and sent.                                                  *)
UpdateUserUpdate(p, c, id, input) ==
    /\ Idle(p)
    /\ users' = users
    /\ LET userId == ParseInt(id)
           guard == requireOwnership(c, id)
           a == [id |-> id, input |-> input]
       IN IF guard.kind = "throw"
          THEN Respond(p, "updateUser", c, a, guard)
          ELSE Await(p, "upd_update", UpdateLocals(c, a, userId, now))
    /\ UNCHANGED <<nextId, nextJti, now, issued, retired, presented, call,
                   watch, loginCap>>

(* lines 148-154: the database executes the update statement *)
UpdateUserExecute(p) ==
    /\ pc[p] = "upd_update"
    /\ users' = UpdateRow(users, loc[p].userId, loc[p].input, loc[p].sentAt)
    /\ Await(p, "upd_select", loc[p])
    /\ UNCHANGED <<nextId, nextJti, now, issued, retired, presented, call,
                   watch, loginCap>>

(* lines 156-168: read the row back *)
UpdateUserSelect(p) ==
    /\ pc[p] = "upd_select"
    /\ users' = users
    /\ LET found == SelectById(users, loc[p].userId)
           c == IF "updateUser" \in watch THEN loc[p].ctx ELSE NoContext
           a == IF "updateUser" \in watch THEN loc[p].args ELSE NoArgs
       IN IF found = {}
          THEN Respond(p, "updateUser", c, a, Throw("", "User not found"))
          ELSE Respond(p, "updateUser", c, a,
                       Return(WithoutPassword(FirstRow(users, found))))
    /\ UNCHANGED <<nextId, nextJti, now, issued, retired, presented, call, watch, loginCap>>

(* lines 172-189.  The guard reads the context and the argument only   *)
(* and the statement carries nothing read from the clock, so the call  *)
(* and the execution of its delete statement are one step.             *)
DeleteUser(p, c, id) ==
    /\ Idle(p)
    /\ LET userId == ParseInt(id)
           guard == requireOwnership(c, id)
       IN IF guard.kind = "throw"
          THEN /\ users' = users
               /\ Respond(p, "deleteUser", c, [id |-> id], guard)
          ELSE /\ users' = DeleteRow(users, userId)
               /\ Respond(p, "deleteUser", c, [id |-> id],
                          Return([success |-> TRUE,
                                  message |-> "User deleted successfully"]))
    /\ retired' = IF "login" \in watch
                  THEN retired \cup Retire(users, users')
                  ELSE retired
    /\ UNCHANGED <<nextId, nextJti, now, issued, presented, call, watch, loginCap>>

----------------------------------------------------------------------------
(* resolvers/userQueries.ts *)

UsersQueryNoAuth(p, c) ==
    /\ Idle(p)
    /\ users' = users
    /\ Respond(p, "users", c, NoArgs,
               Return({WithoutPassword(users[id]) : id \in DOMAIN users}))
    /\ UNCHANGED <<nextId, nextJti, now, issued, retired, presented, call, watch, loginCap>>

(* lines 236-243 *)
UsersQuery(p, c) ==
    /\ Idle(p)
    /\ users' = users
    /\ LET guard == requireAuth(c)
       IN IF guard.kind = "throw"
          THEN Respond(p, "users", c, NoArgs, guard)
          ELSE Respond(p, "users", c, NoArgs,
                       Return({WithoutPassword(users[id]) : id \in DOMAIN users}))
    /\ UNCHANGED <<nextId, nextJti, now, issued, retired, presented, call, watch, loginCap>>

UserQuery(p, c, id) ==
    /\ Idle(p)
    /\ users' = users
    /\ LET found == SelectById(users, ParseInt(id))
       IN IF found = {}
          THEN Respond(p, "user", c, [id |-> id], Return(None))
          ELSE Respond(p, "user", c, [id |-> id],
                       Return(Some(WithoutPassword(FirstRow(users, found)))))
    /\ UNCHANGED <<nextId, nextJti, now, issued, retired, presented, call, watch, loginCap>>

MeQueryNoWhere(p, c) ==
    /\ Idle(p)
    /\ users' = users
    /\ LET guard == requireAuth(c)
       IN IF guard.kind = "throw"
          THEN Respond(p, "me", c, NoArgs, guard)
          ELSE IF DOMAIN users = {}
               THEN Respond(p, "me", c, NoArgs, Throw("", "User not found"))
               ELSE Respond(p, "me", c, NoArgs,
                            Return(WithoutPassword(FirstRow(users, DOMAIN users))))
    /\ UNCHANGED <<nextId, nextJti, now, issued, retired, presented, call, watch, loginCap>>

(* lines 267-283 *)
MeQuery(p, c) ==
    /\ Idle(p)
    /\ users' = users
    /\ LET guard == requireAuth(c)
       IN IF guard.kind = "throw"
          THEN Respond(p, "me", c, NoArgs, guard)
          ELSE LET found == SelectById(users,
                                       ParseInt(TheOne(guard.data).userId))
               IN IF found = {}
                  THEN Respond(p, "me", c, NoArgs, Throw("", "User not found"))
                  ELSE Respond(p, "me", c, NoArgs,
                               Return(WithoutPassword(FirstRow(users, found))))
    /\ UNCHANGED <<nextId, nextJti, now, issued, retired, presented, call, watch, loginCap>>

----------------------------------------------------------------------------
(* graphql/server.ts: makeExecutableSchema({typeDefs, resolvers}).  A     *)
(* mutation field that type Mutation does not have is rejected when the   *)
(* document is validated against the schema; no resolver runs.            *)

ExecuteMutation(field) ==
    IF field \in MutationFields
    THEN NoResult
    ELSE Throw("GRAPHQL_VALIDATION_FAILED",
               "Cannot query field on type Mutation")

(* mutation { refreshToken(refreshToken: $t) } and                        *)
(* mutation { logout(refreshToken: $t) }, as the authentication guide     *)
(* writes them, sent with a token the client holds                        *)
SessionFields == {"refreshToken", "logout"}

UndefinedMutation(p, c, field, t) ==
    /\ Idle(p)
    /\ ExecuteMutation(field).kind = "throw"
    /\ users' = users
    /\ Respond(p, field, c, [refreshToken |-> t], ExecuteMutation(field))
    /\ presented' =
          IF field = "refreshToken" /\ field \in watch
          THEN presented \cup
                 {[slot |-> p, token |-> t,
                   active |-> IsActiveFor(users, ParseInt(t.userId), t.jti),
                   kind |-> ExecuteMutation(field).kind]}
          ELSE presented
    /\ UNCHANGED <<nextId, nextJti, now, issued, retired, call, watch,
                   loginCap>>

----------------------------------------------------------------------------
(* Environment *)

(* The clock advances. *)
Tick ==
    /\ now < MaxTime
    /\ now' = now + 1
    /\ response' = NoResponse
    /\ UNCHANGED <<users, nextId, nextJti, issued, pc, loc, retired,
                   presented, call, watch, loginCap>>

(* An operator sets the suspension flag of an account in the database     *)
(* (no resolver writes the isSuspend column).                             *)
Suspend(id) ==
    /\ id \in DOMAIN users
    /\ ~users[id].isSuspend
    /\ users' = [users EXCEPT ![id].isSuspend = TRUE]
    /\ response' = NoResponse
    /\ UNCHANGED <<nextId, nextJti, now, issued, pc, loc, retired,
                   presented, call, watch, loginCap>>

----------------------------------------------------------------------------
(* The server *)

NoCall == [fn |-> "none"]

(* The state after start-up: an empty table, no request in flight;      *)
(* w: the fields whose responses are observed.                          *)
InitW(w, cap) ==
    /\ users = <<>>
    /\ nextId = 1
    /\ nextJti = 1
    /\ now = 0
    /\ issued = {}
    /\ pc = [p \in Procs |-> "idle"]
    /\ loc = [p \in Procs |-> NoLoc]
    /\ response = NoResponse
    /\ retired = {}
    /\ presented = {}
    /\ call = NoCall
    /\ watch = w
    /\ loginCap = cap

Init == InitW({}, MaxJti)

(* resolvers/index.ts: the resolver map.  Every resolver may be called,  *)
(* with any arguments and any context a GraphQLContext can be, and the   *)
(* calls interleave at their awaits.                                     *)
Next ==
    \/ \E p \in Procs, input \in RegisterInputs : RegisterSelect(p, input)
    \/ \E p \in Procs : RegisterInsert(p)
    \/ \E p \in Procs, input \in LoginInputs : LoginSelect(p, input)
    \/ \E p \in Procs : LoginSign(p)
    \/ \E p \in Procs : LoginUpdate(p)
    \/ \E p \in Procs, c \in ResolverContexts, id \in ArgIds,
          input \in UpdateUserInputs : UpdateUserUpdate(p, c, id, input)
    \/ \E p \in Procs : UpdateUserExecute(p)
    \/ \E p \in Procs : UpdateUserSelect(p)
    \/ \E p \in Procs, c \in ResolverContexts, id \in ArgIds :
          DeleteUser(p, c, id)
    \/ \E p \in Procs, c \in ResolverContexts : UsersQuery(p, c)
    \/ \E p \in Procs, c \in ResolverContexts, id \in ArgIds :
          UserQuery(p, c, id)
    \/ \E p \in Procs, c \in ResolverContexts : MeQuery(p, c)
    \/ Tick
    \/ \E id \in DOMAIN users : Suspend(id)

Spec == Init /\ [][Next]_vars

(* The resolvers of the mutations, with the responses of login or of     *)
(* register observed                                                    *)
NextMutations ==
    \/ \E p \in Procs, input \in RegisterInputs : RegisterSelect(p, input)
    \/ \E p \in Procs : RegisterInsert(p)
    \/ \E p \in Procs, input \in LoginInputs : LoginSelect(p, input)
    \/ \E p \in Procs : LoginSign(p)
    \/ \E p \in Procs : LoginUpdate(p)
    \/ \E p \in Procs, c \in ResolverContexts, id \in ArgIds,
          input \in UpdateUserInputs : UpdateUserUpdate(p, c, id, input)
    \/ \E p \in Procs : UpdateUserExecute(p)
    \/ \E p \in Procs : UpdateUserSelect(p)
    \/ \E p \in Procs, c \in ResolverContexts, id \in ArgIds :
          DeleteUser(p, c, id)
    \/ Tick
    \/ \E id \in DOMAIN users : Suspend(id)

SpecLogin == InitW({"login"}, MaxJti) /\ [][NextMutations]_vars
SpecRegister == InitW({"register"}, MaxJti) /\ [][NextMutations]_vars

(* The resolvers of the queries, with their responses observed, while   *)
(* accounts are registered, logged in to and deleted                    *)
NextQueries ==
    \/ \E p \in Procs, input \in RegisterInputs : RegisterSelect(p, input)
    \/ \E p \in Procs : RegisterInsert(p)
    \/ \E p \in Procs, input \in LoginInputs : LoginSelect(p, input)
    \/ \E p \in Procs : LoginSign(p)
    \/ \E p \in Procs : LoginUpdate(p)
    \/ \E p \in Procs, c \in ResolverContexts, id \in ArgIds :
          DeleteUser(p, c, id)
    \/ \E p \in Procs, c \in ResolverContexts : UsersQuery(p, c)
    \/ \E p \in Procs, c \in ResolverContexts, id \in ArgIds :
          UserQuery(p, c, id)
    \/ \E p \in Procs, c \in ResolverContexts : MeQuery(p, c)
    \/ Tick

SpecQuery == InitW(QueryFields, MaxJti) /\ [][NextQueries]_vars

(* The resolvers that return account data, with their responses observed *)
NextResults ==
    \/ \E p \in Procs, input \in RegisterInputs : RegisterSelect(p, input)
    \/ \E p \in Procs : RegisterInsert(p)
    \/ \E p \in Procs, input \in LoginInputs : LoginSelect(p, input)
    \/ \E p \in Procs : LoginSign(p)
    \/ \E p \in Procs : LoginUpdate(p)
    \/ \E p \in Procs, c \in ResolverContexts, id \in ArgIds,
          input \in UpdateUserInputs : UpdateUserUpdate(p, c, id, input)
    \/ \E p \in Procs : UpdateUserExecute(p)
    \/ \E p \in Procs : UpdateUserSelect(p)
    \/ \E p \in Procs, c \in ResolverContexts, id \in ArgIds :
          DeleteUser(p, c, id)
    \/ \E p \in Procs, c \in ResolverContexts : UsersQuery(p, c)
    \/ \E p \in Procs, c \in ResolverContexts, id \in ArgIds :
          UserQuery(p, c, id)
    \/ \E p \in Procs, c \in ResolverContexts : MeQuery(p, c)

SpecResults ==
    InitW({"login", "updateUser", "users", "user", "me"}, MaxJti)
        /\ [][NextResults]_vars

(* Accounts registered, logged in to, updated and deleted, with the     *)
(* responses of updateUser and deleteUser observed                      *)
NextOwn ==
    \/ \E p \in Procs, input \in RegisterInputs : RegisterSelect(p, input)
    \/ \E p \in Procs : RegisterInsert(p)
    \/ \E p \in Procs, input \in LoginInputs : LoginSelect(p, input)
    \/ \E p \in Procs : LoginSign(p)
    \/ \E p \in Procs : LoginUpdate(p)
    \/ \E p \in Procs, c \in ResolverContexts, id \in ArgIds,
          input \in UpdateUserInputs : UpdateUserUpdate(p, c, id, input)
    \/ \E p \in Procs : UpdateUserExecute(p)
    \/ \E p \in Procs : UpdateUserSelect(p)
    \/ \E p \in Procs, c \in ResolverContexts, id \in ArgIds :
          DeleteUser(p, c, id)

SpecOwn == InitW({"updateUser", "deleteUser"}, MaxJti) /\ [][NextOwn]_vars

(* graphql/server.ts: the Yoga server.  Every request gets the context   *)
(* the context factory builds from it, and a document is validated       *)
(* against the schema before a resolver runs.  updateUser never gets     *)
(* past its guard with these contexts, so its later steps are left out.  *)
NextServer ==
    \/ \E p \in Procs, input \in RegisterInputs : RegisterSelect(p, input)
    \/ \E p \in Procs : RegisterInsert(p)
    \/ \E p \in Procs, input \in LoginInputs : LoginSelect(p, input)
    \/ \E p \in Procs : LoginSign(p)
    \/ \E p \in Procs : LoginUpdate(p)
    \/ \E p \in Procs, c \in Contexts, id \in ArgIds,
          input \in UpdateUserInputs : UpdateUserUpdate(p, c, id, input)
    \/ \E p \in Procs, c \in Contexts, id \in ArgIds : DeleteUser(p, c, id)
    \/ \E p \in Procs, c \in Contexts : UsersQuery(p, c)
    \/ \E p \in Procs, c \in Contexts, id \in ArgIds : UserQuery(p, c, id)
    \/ \E p \in Procs, c \in Contexts : MeQuery(p, c)
    \/ \E p \in Procs, c \in Contexts, field \in SessionFields, t \in issued :
          UndefinedMutation(p, c, field, t)
    \/ Tick
    \/ \E id \in DOMAIN users : Suspend(id)

SpecServer == InitW({"login"}, MaxJti) /\ [][NextServer]_vars

(* Clients of the server that register, log in and send the refreshToken *)
(* and logout mutations of the authentication guide                      *)
NextSession ==
    \/ \E p \in Procs, input \in RegisterInputs : RegisterSelect(p, input)
    \/ \E p \in Procs : RegisterInsert(p)
    \/ \E p \in Procs, input \in LoginInputs : LoginSelect(p, input)
    \/ \E p \in Procs : LoginSign(p)
    \/ \E p \in Procs : LoginUpdate(p)
    \/ \E p \in Procs, c \in Contexts, field \in SessionFields, t \in issued :
          UndefinedMutation(p, c, field, t)
    \/ Tick

SpecSession == InitW(SessionFields, MaxJti) /\ [][NextSession]_vars

(* Accounts being registered, logged in to and deleted concurrently, with *)
(* room for several logins                                                *)
NextRace ==
    \/ \E p \in Procs, input \in RegisterInputs : RegisterSelect(p, input)
    \/ \E p \in Procs : RegisterInsert(p)
    \/ \E p \in Procs, input \in LoginInputs : LoginSelect(p, input)
    \/ \E p \in Procs : LoginSign(p)
    \/ \E p \in Procs : LoginUpdate(p)
    \/ \E p \in Procs, c \in ResolverContexts, id \in ArgIds :
          DeleteUser(p, c, id)

SpecRace == InitW({"login"}, MaxJtiRace) /\ [][NextRace]_vars
SpecReuse == InitW({}, MaxJti) /\ [][NextRace]_vars

(* Accounts of every role registered and logged in to *)
RoleRegisterInputs ==
    [email : Emails, password : RegPasswords, name : Names,
     role : GqlRoles, phone : Phones]

NextRole ==
    \/ \E p \in Procs, input \in RoleRegisterInputs : RegisterSelect(p, input)
    \/ \E p \in Procs : RegisterInsert(p)
    \/ \E p \in Procs, input \in LoginInputs : LoginSelect(p, input)
    \/ \E p \in Procs : LoginSign(p)
    \/ \E p \in Procs : LoginUpdate(p)

SpecRole == InitW({"register", "login"}, MaxJti) /\ [][NextRole]_vars

(* Accounts registered with either password, logged in to, updated,     *)
(* suspended and deleted                                                *)
CredRegisterInputs ==
    [email : Emails, password : Passwords, name : Names,
     role : {"CUSTOMER"}, phone : Phones]

NextCred ==
    \/ \E p \in Procs, input \in CredRegisterInputs : RegisterSelect(p, input)
    \/ \E p \in Procs : RegisterInsert(p)
    \/ \E p \in Procs, input \in LoginInputs : LoginSelect(p, input)
    \/ \E p \in Procs : LoginSign(p)
    \/ \E p \in Procs : LoginUpdate(p)
    \/ \E p \in Procs, c \in ResolverContexts, id \in ArgIds,
          input \in UpdateUserInputs : UpdateUserUpdate(p, c, id, input)
    \/ \E p \in Procs : UpdateUserExecute(p)
    \/ \E p \in Procs : UpdateUserSelect(p)
    \/ \E p \in Procs, c \in ResolverContexts, id \in ArgIds :
          DeleteUser(p, c, id)
    \/ \E id \in DOMAIN users : Suspend(id)

SpecCred == InitW({"register", "login"}, MaxJti) /\ [][NextCred]_vars

----------------------------------------------------------------------------
(* The guards and createContext called on their own: any context, any    *)
(* resource id, any header, at any time.                                  *)

PureUserIds == { <<"1">>, <<"2">>, <<"0", "1">> }

PureContexts ==
    {NoContext} \cup
    {[user |-> Some(Payload(u, e, r))] :
        u \in PureUserIds, e \in Emails, r \in Roles}

PureTokens ==
    {Token(k, Payload(<<"1">>, "a@x", r), j, 0, e) :
        k \in {AccessSecret, RefreshSecret, ForgedSecret},
        r \in {"customer", "admin"}, j \in {0}, e \in 0..(MaxTime + 1)}

CallRequireOwnership(c, rid) ==
    /\ call' = [fn |-> "requireOwnership", context |-> c,
                resourceUserId |-> rid, out |-> requireOwnership(c, rid)]
    /\ UNCHANGED <<users, nextId, nextJti, now, issued, pc, loc, response,
                   retired, presented, watch, loginCap>>

CallCreateContext(req) ==
    /\ call' = [fn |-> "createContext", req |-> req, at |-> now,
                out |-> createContext(req)]
    /\ UNCHANGED <<users, nextId, nextJti, now, issued, pc, loc, response,
                   retired, presented, watch, loginCap>>

CallRequireAuth(c) ==
    /\ call' = [fn |-> "requireAuth", context |-> c, out |-> requireAuth(c)]
    /\ UNCHANGED <<users, nextId, nextJti, now, issued, pc, loc, response,
                   retired, presented, watch, loginCap>>

(* role lists a resolver may pass to requireAnyRole *)
RoleLists ==
    { <<>>, <<"admin">>, <<"customer", "contractor">>, <<"admin", "admin">>,
      <<"contractor", "admin", "customer">> }

CallRequireRole(c, role) ==
    /\ call' = [fn |-> "requireRole", context |-> c, role |-> role,
                out |-> requireRole(c, role)]
    /\ UNCHANGED <<users, nextId, nextJti, now, issued, pc, loc, response,
                   retired, presented, watch, loginCap>>

CallRequireAnyRole(c, roles) ==
    /\ call' = [fn |-> "requireAnyRole", context |-> c, roles |-> roles,
                out |-> requireAnyRole(c, roles)]
    /\ UNCHANGED <<users, nextId, nextJti, now, issued, pc, loc, response,
                   retired, presented, watch, loginCap>>

NextPure ==
    \/ \E c \in PureContexts, rid \in AllArgIds : CallRequireOwnership(c, rid)
    \/ \E h \in Headers(PureTokens) :
          \/ CallCreateContext(ExpressRequest(h))
          \/ CallCreateContext(FetchRequest(h))
    \/ \E c \in PureContexts, role \in Roles : CallRequireRole(c, role)
    \/ \E c \in PureContexts, roles \in RoleLists : CallRequireAnyRole(c, roles)
    \/ Tick

SpecPure == Init /\ [][NextPure]_vars

(* The guards called while accounts are being registered *)
NextGuards ==
    \/ \E p \in Procs, input \in RegisterInputs : RegisterSelect(p, input)
    \/ \E p \in Procs : RegisterInsert(p)
    \/ \E c \in PureContexts : CallRequireAuth(c)
    \/ \E c \in PureContexts, role \in Roles : CallRequireRole(c, role)
    \/ \E c \in PureContexts, roles \in RoleLists : CallRequireAnyRole(c, roles)
    \/ \E c \in PureContexts, rid \in ArgIds : CallRequireOwnership(c, rid)

SpecGuards == Init /\ [][NextGuards]_vars

----------------------------------------------------------------------------
(* C1: requireOwnership(context, resourceUserId) throws UNAUTHENTICATED   *)
(* when the context has no user; otherwise it returns the context's user  *)
(* if user.userId equals resourceUserId (whatever the role) or user.role  *)
(* is admin (whatever the userId), and throws FORBIDDEN in every other    *)
(* case.                                                                  *)
C1_RequireOwnership ==
    call.fn = "requireOwnership" =>
        IF call.context.user = None
        THEN call.out.kind = "throw" /\ call.out.code = "UNAUTHENTICATED"
        ELSE LET u == TheOne(call.context.user)
             IN IF u.userId = call.resourceUserId \/ u.role = "admin"
                THEN call.out.kind = "return" /\ call.out.data = Some(u)
                ELSE call.out.kind = "throw" /\ call.out.code = "FORBIDDEN"

(* an admin passes for a resource that is not its own *)
C1_Witness ==
    /\ call.fn = "requireOwnership"
    /\ call.context.user # None
    /\ TheOne(call.context.user).role = "admin"
    /\ TheOne(call.context.user).userId # call.resourceUserId
    /\ call.out.kind = "return"

----------------------------------------------------------------------------
(* C9: createContext never fails.  For every request, whether the        *)
(* Authorization header is missing, cannot be read off the request, does *)
(* not start with "Bearer ", or carries text whose verification throws,  *)
(* it returns the context without a user; it returns a context with a    *)
(* user, the token's userId, email and role, only when the header read   *)
(* off the request is "Bearer " followed by a token that verifies        *)
(* (signed with the access secret, not expired).                         *)
C9_CreateContextNeverFails ==
    call.fn = "createContext" =>
        LET h == call.req.authorization
            verifies ==
                /\ call.req.headers = "object"
                /\ h # None
                /\ TheOne(h).text = BearerPrefix
                /\ TheOne(h).blob # None
                /\ TheOne(TheOne(h).blob).secret = AccessSecret
                /\ TheOne(TheOne(h).blob).exp > call.at
        IN IF verifies
           THEN call.out = [user |-> Some(IdentityOf(TheOne(TheOne(h).blob)))]
           ELSE call.out = NoContext

(* a Bearer header whose token does not verify gave the empty context *)
C9_Witness ==
    /\ call.fn = "createContext"
    /\ call.req.headers = "object"
    /\ call.req.authorization # None
    /\ StartsWith(TheOne(call.req.authorization).text, BearerPrefix)
    /\ TheOne(call.req.authorization).blob # None
    /\ TheOne(TheOne(call.req.authorization).blob).secret = AccessSecret
    /\ ~(TheOne(TheOne(call.req.authorization).blob).exp > call.at)
    /\ call.out = NoContext

(* C10: access-token validity is stateless.  In every state of the       *)
(* database that is reached (after any register, login, updateUser,      *)
(* deleteUser, and whether the token's account is suspended or deleted), *)
(* what createContext derives from an unexpired access token that login  *)
(* issued is the same: the identity the token carries when the request   *)
(* is an Express request, no identity when it is a Fetch Request.        *)
C10_StatelessAccessToken ==
    \A t \in issued :
        (t.secret = AccessSecret /\ t.exp > now) =>
            /\ BearerContext(t) = [user |-> Some(IdentityOf(t))]
            /\ ServerContext(t) = NoContext

(* an unexpired access token whose account is gone or suspended *)
C10_Witness ==
    \E t \in issued :
        /\ t.secret = AccessSecret
        /\ t.exp > now
        /\ \/ SelectById(users, ParseInt(t.userId)) = {}
           \/ \E id \in SelectById(users, ParseInt(t.userId)) :
                 users[id].isSuspend
        /\ BearerContext(t).user # None

(* C2: updateUser called without an identity throws UNAUTHENTICATED, and *)
(* called by a non-admin identity whose userId differs from the id       *)
(* argument throws FORBIDDEN; in both cases the step that answers writes *)
(* nothing to the users table.                                           *)
C2_UpdateUserGuard ==
    response.op = "updateUser" =>
        /\ response.ctx.user = None =>
              /\ response.result.kind = "throw"
              /\ response.result.code = "UNAUTHENTICATED"
              /\ ~response.changed
        /\ (/\ response.ctx.user # None
            /\ TheOne(response.ctx.user).role # "admin"
            /\ TheOne(response.ctx.user).userId # response.args.id) =>
              /\ response.result.kind = "throw"
              /\ response.result.code = "FORBIDDEN"
              /\ ~response.changed

(* a non-admin was refused the update of an existing account of another *)
C2_Witness ==
    /\ response.op = "updateUser"
    /\ response.ctx.user # None
    /\ TheOne(response.ctx.user).role # "admin"
    /\ TheOne(response.ctx.user).userId # response.args.id
    /\ SelectById(users, ParseInt(response.args.id)) # {}
    /\ response.result.code = "FORBIDDEN"

(* C3: an account leaves the users table only in a step that answers a   *)
(* deleteUser call made by an identity that owns it (userId is the       *)
(* account's id) or is admin; a deleteUser call that throws              *)
(* (UNAUTHENTICATED without an identity, FORBIDDEN for a non-admin whose *)
(* userId differs from the id argument) removes nothing.                 *)
C3_Removed == DOMAIN users \ DOMAIN users'

C3_DeleteOnlyByOwnerOrAdmin ==
    [][ /\ C3_Removed # {} =>
             /\ response'.op = "deleteUser"
             /\ response'.result.kind = "return"
             /\ response'.ctx.user # None
             /\ \A id \in C3_Removed :
                   \/ TheOne(response'.ctx.user).userId = NumberToString(id)
                   \/ TheOne(response'.ctx.user).role = "admin"
        /\ response'.op = "deleteUser" =>
             /\ response'.ctx.user = None =>
                   /\ response'.result.code = "UNAUTHENTICATED"
                   /\ users' = users
             /\ (/\ response'.ctx.user # None
                 /\ TheOne(response'.ctx.user).role # "admin"
                 /\ TheOne(response'.ctx.user).userId # response'.args.id) =>
                   /\ response'.result.code = "FORBIDDEN"
                   /\ users' = users
      ]_vars

(* a non-admin deleted its own account while another account stayed *)
C3_Witness ==
    /\ response.op = "deleteUser"
    /\ response.result.kind = "return"
    /\ response.changed
    /\ TheOne(response.ctx.user).role # "admin"
    /\ DOMAIN users # {}

----------------------------------------------------------------------------
(* C4: a successful login for user U that returns a refresh token with   *)
(* identifier jti appends jti to U's stored refresh tokens: right after  *)
(* the login answers, U's refreshTokens is the list the login read       *)
(* followed by jti.                                                      *)
C4_LoginAppendsJti ==
    (response.op = "login" /\ response.result.kind = "return") =>
        LET d == TheOne(response.result.data)
        IN /\ d.user.id \in DOMAIN users
           /\ users[d.user.id].refreshTokens
                 = d.user.refreshTokens \o <<d.refreshToken.jti>>

(* C5: a refreshToken exchange presenting a refresh token that login     *)
(* returned, whose jti is in the account's stored set and which has not  *)
(* expired, succeeds and returns a new pair.                             *)
C5_RefreshSucceedsOnce ==
    (/\ response.op = "refreshToken"
     /\ response.args.refreshToken.secret = RefreshSecret
     /\ response.args.refreshToken.exp > now
     /\ IsActiveFor(users, ParseInt(response.args.refreshToken.userId),
                    response.args.refreshToken.jti)) =>
        response.result.kind = "return"

(* C6: when two refreshToken exchanges have presented the same refresh   *)
(* token, whose jti0 was in the account's stored set, exactly one of     *)
(* them succeeded and jti0 is in the stored set no longer.               *)
C6_ConcurrentRotation ==
    \A t \in issued :
        (/\ t.secret = RefreshSecret
         /\ \A p \in Procs : \E e \in presented :
                e.slot = p /\ e.token = t /\ e.active) =>
            /\ Cardinality({p \in Procs : \E e \in presented :
                   e.slot = p /\ e.token = t /\ e.kind = "return"}) = 1
            /\ ~IsActiveFor(users, ParseInt(t.userId), t.jti)

(* C7: after a logout call presenting a refresh token that login         *)
(* returned, the token's jti is not in the account's stored set.         *)
C7_LogoutRevokes ==
    (/\ response.op = "logout"
     /\ response.args.refreshToken.secret = RefreshSecret) =>
        ~IsActiveFor(users, ParseInt(response.args.refreshToken.userId),
                     response.args.refreshToken.jti)

(* C8: a jti that has left the stored refresh-token set of an account is *)
(* never in that set again.                                              *)
C8_NoReturnToActive ==
    \A e \in retired : ~IsActive(users, e[1], e[2])

----------------------------------------------------------------------------
(* C11: access-token round trip.  The access token a successful login    *)
(* returns carries the userId, email and role of the account the login   *)
(* authenticated (userId: the id as a decimal string); a request that    *)
(* presents it to the server as "Authorization: Bearer <token>" while    *)
(* less than the access lifetime has elapsed since it was signed gets a  *)
(* context with that identity, and once the lifetime has elapsed a       *)
(* context without identity.  This holds of the token in the login       *)
(* response and of every token handed out earlier.                       *)
C11_AccessTokenRoundTrip ==
    /\ (response.op = "login" /\ response.result.kind = "return") =>
          LET d == TheOne(response.result.data)
          IN IdentityOf(d.accessToken)
                = Payload(NumberToString(d.user.id), d.user.email, d.user.role)
    /\ \A t \in issued :
          t.secret = AccessSecret =>
              ServerContext(t) = IF now < t.iat + AccessLifetime
                                 THEN [user |-> Some(IdentityOf(t))]
                                 ELSE NoContext

----------------------------------------------------------------------------
(* The account login finds for an email, if any, in the table tbl *)
AccountOf(tbl, email) ==
    IF SelectByEmail(tbl, email) = {} THEN None
    ELSE Some(FirstRow(tbl, SelectByEmail(tbl, email)))

(* the password an account was registered with *)
PasswordOf(row) == row.password.plain

(* The step answers a login call at its select (the resolver throws    *)
(* before it compares the password): no slot moves.                     *)
LoginRefused == response'.op = "login" /\ pc' = pc

(* The step takes a login call of slot p past the select and its checks *)
LoginFinds(p) == pc[p] = "idle" /\ pc'[p] = "login_compare"

(* The step is the one in which comparePassword of slot p's login ends *)
LoginCompares(p) == pc[p] = "login_compare" /\ pc'[p] # "login_compare"

(* The step takes a login call of slot p past its checks: it signs *)
LoginProceeds(p) == pc[p] = "login_compare" /\ pc'[p] = "login_update"

(* C12: a login call fails with "Account is suspended" exactly when the  *)
(* email exists, the password matches and the account is suspended; with *)
(* an existing email and a wrong password it fails with the code of      *)
(* invalid credentials, suspended or not.                                *)
C12_SuspendedIffValidCredentials ==
    (response.op = "login" /\ response.result.kind = "throw") =>
        LET acc == AccountOf(users, response.args.email)
            matches == acc # None
                       /\ PasswordOf(TheOne(acc)) = response.args.password
        IN /\ (response.result.message = "Account is suspended")
                  <=> (matches /\ TheOne(acc).isSuspend)
           /\ (acc # None /\ ~matches) =>
                  response.result.code = "BAD_USER_INPUT"

(* C13: a login call with an email no account has is answered at its     *)
(* select, and a login call that found a non-suspended account and gave  *)
(* a password other than the account's is answered when the comparison   *)
(* ends, with one and the same error (message "Invalid email or          *)
(* password", code BAD_USER_INPUT); the step that answers writes nothing *)
(* (table, tokens handed out, sequences) and no such call gets past the  *)
(* checks to sign tokens.                                                *)
C13_LoginDoesNotDisambiguate ==
    [][ /\ LoginRefused =>
             (AccountOf(users, response'.args.email) = None =>
                   /\ response'.result
                         = Throw("BAD_USER_INPUT", "Invalid email or password")
                   /\ UNCHANGED <<users, issued, nextId, nextJti>>)
        /\ \A p \in Procs :
             /\ LoginFinds(p) =>
                   AccountOf(users, loc'[p].input.email) = Some(loc'[p].user)
             /\ (/\ LoginCompares(p)
                 /\ PasswordOf(loc[p].user) # loc[p].input.password) =>
                   /\ ~LoginProceeds(p)
                   /\ response'.op = "login"
                   /\ response'.args = loc[p].input
                   /\ response'.result
                         = Throw("BAD_USER_INPUT", "Invalid email or password")
                   /\ UNCHANGED <<users, issued, nextId, nextJti>>
      ]_vars

(* a wrong password for a registered, non-suspended account was refused  *)
(* while no account has the other email                                  *)
C13_Witness ==
    /\ response.op = "login"
    /\ response.result.kind = "throw"
    /\ AccountOf(users, response.args.email) # None
    /\ ~TheOne(AccountOf(users, response.args.email)).isSuspend
    /\ PasswordOf(TheOne(AccountOf(users, response.args.email)))
          # response.args.password
    /\ \E e \in Emails : AccountOf(users, e) = None
    /\ response.result.code = "BAD_USER_INPUT"

(* C14: a login call that finds the account of its email suspended fails *)
(* with code FORBIDDEN whatever the password, returns no token and       *)
(* leaves the table (the refresh-token sets included) and the tokens     *)
(* handed out unchanged; no login call gets past its select, and none    *)
(* signs tokens, for an account it found suspended.                      *)
C14_SuspendedGetsNoTokens ==
    [][ /\ LoginRefused =>
             LET acc == AccountOf(users, response'.args.email)
             IN (acc # None /\ TheOne(acc).isSuspend) =>
                   /\ response'.result.kind = "throw"
                   /\ response'.result.code = "FORBIDDEN"
                   /\ UNCHANGED <<users, issued, nextJti>>
        /\ \A p \in Procs :
             /\ LoginFinds(p) =>
                   LET acc == AccountOf(users, loc'[p].input.email)
                   IN acc # None /\ ~TheOne(acc).isSuspend
             /\ LoginProceeds(p) => ~loc[p].user.isSuspend
      ]_vars

(* the right password of a suspended account was refused with FORBIDDEN *)
C14_Witness ==
    /\ response.op = "login"
    /\ response.result.code = "FORBIDDEN"
    /\ AccountOf(users, response.args.email) # None
    /\ TheOne(AccountOf(users, response.args.email)).isSuspend
    /\ PasswordOf(TheOne(AccountOf(users, response.args.email)))
          = response.args.password
    /\ TheOne(AccountOf(users, response.args.email)).refreshTokens = <<>>

----------------------------------------------------------------------------
(* The step answers a register call at its existence check *)
RegisterRefused == response'.op = "register" /\ pc' = pc

(* The step takes a register call of slot p past its existence check *)
RegisterProceeds(p) == pc[p] = "idle" /\ pc'[p] = "reg_insert"

(* C15: a register call made with an email that an account has fails     *)
(* with message "User with this email already exists" and code           *)
(* BAD_USER_INPUT; the step creates no account, changes no account and   *)
(* draws no id; no register call gets past the check with such an email. *)
C15_RegisterDuplicateEmail ==
    [][ /\ RegisterRefused =>
             (AccountOf(users, response'.args.email) # None =>
                 /\ response'.result
                       = Throw("BAD_USER_INPUT",
                               "User with this email already exists")
                 /\ UNCHANGED <<users, nextId>>)
        /\ \A p \in Procs :
             RegisterProceeds(p) =>
                 AccountOf(users, loc'[p].input.email) = None
      ]_vars

(* a register call for the email of an existing account was refused *)
C15_Witness ==
    /\ response.op = "register"
    /\ response.result.code = "BAD_USER_INPUT"
    /\ AccountOf(users, response.args.email) # None
    /\ ~response.changed

(* C16: email uniqueness.  In every reachable state no two accounts have *)
(* the same email, also when two register calls for one email both pass  *)
(* the existence check before either inserts.                            *)
C16_EmailUnique ==
    \A i, j \in DOMAIN users : users[i].email = users[j].email => i = j

(* two register calls for one email raced: the second insert met the    *)
(* unique index                                                         *)
C16_Witness ==
    /\ response.op = "register"
    /\ response.result.code = "INTERNAL_SERVER_ERROR"
    /\ Cardinality(SelectByEmail(users, response.args.email)) = 1

(* C17: an account comes into being only by a register call that        *)
(* succeeds, with an empty refresh-token list and the role given in the *)
(* call (the enum value in lower case); no step of register, login,     *)
(* updateUser or deleteUser changes the role of an account that exists. *)
C17_RoleFixedAtCreation ==
    [][ /\ \A id \in DOMAIN users' \ DOMAIN users :
             /\ response'.op = "register"
             /\ response'.result.kind = "return"
             /\ users'[id].refreshTokens = <<>>
             /\ \/ response'.args.role = "CUSTOMER"
                   /\ users'[id].role = "customer"
                \/ response'.args.role = "CONTRACTOR"
                   /\ users'[id].role = "contractor"
                \/ response'.args.role = "ADMIN"
                   /\ users'[id].role = "admin"
        /\ \A id \in DOMAIN users \cap DOMAIN users' :
             users'[id].role = users[id].role
      ]_vars

(* a customer account was registered while an admin account that has    *)
(* logged in exists                                                     *)
C17_Witness ==
    /\ response.op = "register"
    /\ response.result.kind = "return"
    /\ response.args.role = "CUSTOMER"
    /\ \E id \in DOMAIN users :
          /\ users[id].email = response.args.email
          /\ users[id].role = "customer"
          /\ users[id].refreshTokens = <<>>
    /\ \E id \in DOMAIN users :
          users[id].role = "admin" /\ users[id].refreshTokens # <<>>

----------------------------------------------------------------------------
(* C18: credential round trip.  register stores the password it was      *)
(* given with the account it creates and no step changes the password or *)
(* the email of an account; a login call with the email of an account    *)
(* that exists and is not suspended finds that account, and it gets past *)
(* the comparison (and then returns tokens) if and only if its password  *)
(* is the one the account was registered with.                           *)
C18_CredentialRoundTrip ==
    [][ /\ \A id \in DOMAIN users' \ DOMAIN users :
             /\ response'.op = "register"
             /\ users'[id].email = response'.args.email
             /\ PasswordOf(users'[id]) = response'.args.password
        /\ \A id \in DOMAIN users \cap DOMAIN users' :
             /\ users'[id].email = users[id].email
             /\ users'[id].password = users[id].password
        /\ LoginRefused =>
             LET acc == AccountOf(users, response'.args.email)
             IN acc = None \/ TheOne(acc).isSuspend
        /\ \A p \in Procs :
             /\ LoginFinds(p) =>
                   AccountOf(users, loc'[p].input.email) = Some(loc'[p].user)
             /\ LoginCompares(p) =>
                   /\ LoginProceeds(p)
                         <=> PasswordOf(loc[p].user) = loc[p].input.password
                   /\ ~LoginProceeds(p) =>
                         /\ response'.op = "login"
                         /\ response'.result.kind = "throw"
             /\ (pc[p] = "login_update" /\ pc'[p] # "login_update") =>
                   /\ response'.op = "login"
                   /\ response'.args = loc[p].input
                   /\ response'.result.kind = "return"
      ]_vars

(* login with the password q succeeded for an account registered with q *)
(* while an account registered with p exists                             *)
C18_Witness ==
    /\ response.op = "login"
    /\ response.result.kind = "return"
    /\ response.args.password = "q"
    /\ \E id \in DOMAIN users :
          users[id].email = response.args.email /\ PasswordOf(users[id]) = "q"
    /\ \E id \in DOMAIN users : PasswordOf(users[id]) = "p"

----------------------------------------------------------------------------
(* C19: requireRole(context, role) throws UNAUTHENTICATED when the       *)
(* context has no user (never FORBIDDEN then), throws FORBIDDEN when the *)
(* context's user has another role than role (an admin included), and    *)
(* returns the context's user otherwise.                                 *)
C19_RequireRole ==
    call.fn = "requireRole" =>
        IF call.context.user = None
        THEN call.out.kind = "throw" /\ call.out.code = "UNAUTHENTICATED"
        ELSE IF TheOne(call.context.user).role = call.role
        THEN call.out.kind = "return" /\ call.out.data = call.context.user
        ELSE call.out.kind = "throw" /\ call.out.code = "FORBIDDEN"

(* an admin was refused by a check for the customer role *)
C19_Witness ==
    /\ call.fn = "requireRole"
    /\ call.context.user # None
    /\ TheOne(call.context.user).role = "admin"
    /\ call.role = "customer"
    /\ call.out.code = "FORBIDDEN"

(* C20: requireAnyRole(context, roles) throws UNAUTHENTICATED when the   *)
(* context has no user, throws FORBIDDEN when the user's role is not an  *)
(* element of roles (so for every user when roles is empty), and returns *)
(* the context's user otherwise.                                         *)
C20_RequireAnyRole ==
    call.fn = "requireAnyRole" =>
        IF call.context.user = None
        THEN call.out.kind = "throw" /\ call.out.code = "UNAUTHENTICATED"
        ELSE IF TheOne(call.context.user).role \in SeqToSet(call.roles)
        THEN call.out.kind = "return" /\ call.out.data = call.context.user
        ELSE call.out.kind = "throw" /\ call.out.code = "FORBIDDEN"

(* an admin was refused by a check with the empty list of roles *)
C20_Witness ==
    /\ call.fn = "requireAnyRole"
    /\ call.context.user # None
    /\ TheOne(call.context.user).role = "admin"
    /\ call.roles = <<>>
    /\ call.out.code = "FORBIDDEN"

----------------------------------------------------------------------------
(* C21: the guards are pure.  A call of requireAuth, requireRole,        *)
(* requireAnyRole or requireOwnership, whether it returns or throws,     *)
(* leaves every stored account, the sequences, the tokens handed out and *)
(* the requests in flight as they were, and what it returns is exactly   *)
(* the user of the context it was given.                                 *)
C21_GuardsArePure ==
    [][ call' # call =>
          /\ call'.fn \in {"requireAuth", "requireRole", "requireAnyRole",
                           "requireOwnership"}
          /\ UNCHANGED <<users, nextId, nextJti, issued, pc, loc>>
          /\ call'.out.kind \in {"return", "throw"}
          /\ call'.out.kind = "return" =>
                call'.out.data = call'.context.user
          /\ call'.out.kind = "throw" => call'.out.data = None
      ]_vars

(* requireAuth returned the user of its context while accounts are      *)
(* stored                                                               *)
C21_Witness ==
    /\ call.fn = "requireAuth"
    /\ call.out.kind = "return"
    /\ call.out.data = call.context.user
    /\ TheOne(call.context.user).role = "customer"
    /\ DOMAIN users # {}

----------------------------------------------------------------------------
(* C22: the users and me queries require authentication.  Called with a  *)
(* context without user they throw UNAUTHENTICATED and return no data;   *)
(* called with a user in the context, whatever its role, users returns   *)
(* one entry for every stored account and nothing else.                  *)
C22_QueriesRequireAuth ==
    /\ (response.op \in {"users", "me"} /\ response.ctx.user = None) =>
          /\ response.result.kind = "throw"
          /\ response.result.code = "UNAUTHENTICATED"
          /\ response.result.data = None
    /\ (response.op = "users" /\ response.ctx.user # None) =>
          /\ response.result.kind = "return"
          /\ TheOne(response.result.data)
                = {WithoutPassword(users[id]) : id \in DOMAIN users}
          /\ {r.id : r \in TheOne(response.result.data)} = DOMAIN users

(* a customer listed the two stored accounts *)
C22_Witness ==
    /\ response.op = "users"
    /\ response.ctx.user # None
    /\ TheOne(response.ctx.user).role = "customer"
    /\ response.result.kind = "return"
    /\ Cardinality(TheOne(response.result.data)) = 2

(* C23: no resolver result exposes the stored password.  The account     *)
(* records returned by login (user), updateUser, users (each entry),     *)
(* user and me have no password field, in any reachable state.           *)
C23_NoPasswordInResults ==
    (response.op \in {"login", "updateUser", "users", "user", "me"}
       /\ response.result.kind = "return") =>
        LET d == TheOne(response.result.data)
            records ==
                CASE response.op = "login" -> {d.user}
                  [] response.op = "users" -> d
                  [] response.op = "user" -> d
                  [] OTHER -> {d}
        IN \A r \in records : "password" \notin DOMAIN r

(* the user query returned an account to a caller without identity *)
C23_Witness ==
    /\ response.op = "user"
    /\ response.ctx.user = None
    /\ response.result.kind = "return"
    /\ TheOne(response.result.data) # None
    /\ "email" \in DOMAIN TheOne(TheOne(response.result.data))

(* C24: me, called with a user in the context, returns the account whose *)
(* id is the integer its userId parses to, and that id written as a      *)
(* string is the userId; when no such account is stored (it has been     *)
(* deleted since the token was issued) me throws "User not found".       *)
C24_MeReturnsOwnAccount ==
    (response.op = "me" /\ response.ctx.user # None) =>
        LET uid == TheOne(response.ctx.user).userId
            found == SelectById(users, ParseInt(uid))
        IN IF found # {}
           THEN /\ response.result.kind = "return"
                /\ TheOne(response.result.data)
                      = WithoutPassword(users[TheOne(found)])
                /\ NumberToString(TheOne(response.result.data).id) = uid
                /\ TheOne(response.result.data).email
                      = TheOne(response.ctx.user).email
           ELSE /\ response.result.kind = "throw"
                /\ response.result.message = "User not found"

(* me was called with the token of an account deleted since, while      *)
(* another account is stored                                            *)
C24_Witness ==
    /\ response.op = "me"
    /\ response.ctx.user # None
    /\ SelectById(users, ParseInt(TheOne(response.ctx.user).userId)) = {}
    /\ DOMAIN users # {}
    /\ response.result.message = "User not found"

----------------------------------------------------------------------------
(* C25: concurrent logins lose no session.  Once no login is in flight,  *)
(* the jti of every refresh token login has returned for an account that *)
(* is stored is a member of that account's stored refresh-token list.    *)
C25_NoLostSession ==
    (\A p \in Procs : pc[p] = "idle") =>
        \A t \in issued :
            (/\ t.secret = RefreshSecret
             /\ SelectById(users, ParseInt(t.userId)) # {}) =>
                IsActiveFor(users, ParseInt(t.userId), t.jti)

----------------------------------------------------------------------------
(* The step runs the update statement of an updateUser call of slot p   *)
(* (the guard has passed)                                               *)
UpdateRuns(p) == pc[p] = "upd_update" /\ pc'[p] = "upd_select"

(* C26: when an updateUser or deleteUser call of a non-admin caller      *)
(* passes the guard, the integer Number.parseInt(args.id, 10) that the   *)
(* database statement compares ids with is the caller's own id: it is a  *)
(* number, it is what the caller's userId parses to, written as a string *)
(* it is the caller's userId, and the step changes or removes no row     *)
(* with another id.                                                      *)
C26_GuardAndStatementAgree ==
    [][ /\ \A p \in Procs :
             (UpdateRuns(p) /\ TheOne(loc'[p].ctx.user).role # "admin") =>
                LET uid == TheOne(loc'[p].ctx.user).userId
                    n == ParseInt(loc'[p].args.id)
                IN /\ n # NaN
                   /\ n = loc'[p].userId
                   /\ n = ParseInt(uid)
                   /\ NumberToString(TheOne(n)) = uid
                   /\ DOMAIN users' = DOMAIN users
                   /\ \A id \in DOMAIN users :
                         users'[id] # users[id] => id \in n
        /\ (/\ response'.op = "deleteUser"
            /\ response'.result.kind = "return"
            /\ TheOne(response'.ctx.user).role # "admin") =>
                LET uid == TheOne(response'.ctx.user).userId
                    n == ParseInt(response'.args.id)
                IN /\ n # NaN
                   /\ n = ParseInt(uid)
                   /\ NumberToString(TheOne(n)) = uid
                   /\ DOMAIN users \ DOMAIN users' \subseteq n
                   /\ \A id \in DOMAIN users' : users'[id] = users[id]
      ]_vars

(* a customer updated its own account while another account is stored *)
C26_Witness ==
    /\ response.op = "updateUser"
    /\ response.result.kind = "return"
    /\ TheOne(response.ctx.user).role = "customer"
    /\ TheOne(response.result.data).name = "m"
    /\ NumberToString(TheOne(response.result.data).id)
          = TheOne(response.ctx.user).userId
    /\ Cardinality(DOMAIN users) = 2

(* C27: the update statement of updateUser changes only the name, phone  *)
(* and updatedAt columns of the row whose id is the parsed id argument:  *)
(* that row's id, email, password, role, isSuspend and refreshTokens,    *)
(* every other row and the set of rows are as before.                    *)
C27_UpdateUserFrame ==
    [][ \A p \in Procs :
          UpdateRuns(p) =>
             /\ DOMAIN users' = DOMAIN users
             /\ \A id \in DOMAIN users :
                   IF id \in loc'[p].userId
                   THEN /\ users'[id].id = users[id].id
                        /\ users'[id].email = users[id].email
                        /\ users'[id].password = users[id].password
                        /\ users'[id].role = users[id].role
                        /\ users'[id].isSuspend = users[id].isSuspend
                        /\ users'[id].refreshTokens = users[id].refreshTokens
                   ELSE users'[id] = users[id]
      ]_vars

(* an account with a stored session was renamed by updateUser and kept  *)
(* its session                                                          *)
C27_Witness ==
    /\ response.op = "updateUser"
    /\ response.result.kind = "return"
    /\ TheOne(response.result.data).name = "m"
    /\ TheOne(response.result.data).phone = Some("9")
    /\ TheOne(response.result.data).refreshTokens # <<>>

----------------------------------------------------------------------------
(* C28: token identity stays consistent with the store.  In every        *)
(* reachable state, for every unexpired access token login has handed    *)
(* out and every stored account whose id written as a string is the      *)
(* token's userId, the token's email and role are the account's email    *)
(* and role.                                                             *)
C28_TokenMatchesStore ==
    \A t \in issued :
        (t.secret = AccessSecret /\ t.exp > now) =>
            \A id \in DOMAIN users :
                NumberToString(id) = t.userId =>
                    /\ t.email = users[id].email
                    /\ t.role = users[id].role

(* an unexpired admin token whose account has been updated since, while *)
(* another account is stored                                            *)
C28_Witness ==
    \E t \in issued :
        /\ t.secret = AccessSecret
        /\ t.exp > now
        /\ t.role = "admin"
        /\ \E id \in SelectById(users, ParseInt(t.userId)) :
              users[id].name = "m"
        /\ Cardinality(DOMAIN users) = 2

(* the access tokens login has handed out or has signed and is about to *)
(* hand out                                                             *)
SignedAccessTokens ==
    {t \in issued : t.secret = AccessSecret}
        \cup {loc[p].accessToken : p \in {q \in Procs : pc[q] = "login_update"}}

(* C29: account ids are never reused.  The id of an account that comes   *)
(* into being is the userId of no access token signed so far, so that no *)
(* non-admin token passes requireOwnership for it; and a non-admin token *)
(* passes requireOwnership only for the id its userId spells, of the     *)
(* account with the token's email.                                       *)
C29_IdsNeverReused ==
    [][ /\ \A id \in DOMAIN users' \ DOMAIN users :
             \A t \in SignedAccessTokens :
                /\ t.userId # NumberToString(id)
                /\ t.role # "admin" =>
                      requireOwnership([user |-> Some(IdentityOf(t))],
                                       NumberToString(id)).kind = "throw"
        /\ \A t \in SignedAccessTokens, id \in DOMAIN users :
             (/\ t.role # "admin"
              /\ requireOwnership([user |-> Some(IdentityOf(t))],
                                  NumberToString(id)).kind = "return") =>
                 /\ NumberToString(id) = t.userId
                 /\ users[id].email = t.email
      ]_vars

(* a customer account was deleted and the same email registered again:  *)
(* the old token is refused for the new account                         *)
C29_Witness ==
    \E t \in issued :
        /\ t.secret = AccessSecret
        /\ t.role # "admin"
        /\ SelectById(users, ParseInt(t.userId)) = {}
        /\ \E id \in DOMAIN users :
              /\ users[id].email = t.email
              /\ requireOwnership([user |-> Some(IdentityOf(t))],
                                  NumberToString(id)).kind = "throw"

(* The lower-case role of a GraphQL UserRole value *)
StoredRoleOf(gqlRole) ==
    CASE gqlRole = "CUSTOMER" -> "customer"
      [] gqlRole = "CONTRACTOR" -> "contractor"
      [] gqlRole = "ADMIN" -> "admin"

(* C30: role representation round trip.  An account registered with the  *)
(* GraphQL role CUSTOMER, CONTRACTOR or ADMIN is stored with the role    *)
(* customer, contractor or admin; every stored role is one of these; and *)
(* the identity of the access token a login returns passes requireRole   *)
(* for the role of the account it logged in to and for no other role.    *)
C30_RoleRoundTrip ==
    /\ \A id \in DOMAIN users : users[id].role \in Roles
    /\ (response.op = "register" /\ response.result.kind = "return") =>
          /\ AccountOf(users, response.args.email) # None
          /\ TheOne(AccountOf(users, response.args.email)).role
                = StoredRoleOf(response.args.role)
    /\ (response.op = "login" /\ response.result.kind = "return") =>
          LET d == TheOne(response.result.data)
              identity == [user |-> Some(IdentityOf(d.accessToken))]
          IN /\ BearerContext(d.accessToken) = identity
             /\ \A r \in Roles :
                   requireRole(identity, r).kind = "return" <=> r = d.user.role

(* a contractor logged in and passes requireRole for contractor *)
C30_Witness ==
    /\ response.op = "login"
    /\ response.result.kind = "return"
    /\ TheOne(response.result.data).user.role = "contractor"
    /\ requireRole(BearerContext(TheOne(response.result.data).accessToken),
                   "contractor").kind = "return"

====
